---- MODULE Spec2Model ----
(***************************************************************************)
(* The chat page of Echo: the message list and the responding flag of      *)
(* ChatPage, its three submit handlers, the file picker's validation and   *)
(* the backend call each handler awaits.                                   *)
(*                                                                         *)
(* ChatPage hands handleFileUpload and handleAudioUpload to its children   *)
(* as callbacks and reads nothing back from them, so the children appear   *)
(* here as the sources of the calls: FileUpload through handleFileSelect,  *)
(* AudioRecorder through the onAudioUpload call of its recorder's stop     *)
(* event.                                                                  *)
(*                                                                         *)
(* Three more specifications watch one part each: FileSpec the file picker *)
(* with a wider range of files, RecorderSpec the AudioRecorder component   *)
(* with the browser's streams, recorders and timers, and RelaySpec the     *)
(* relay service in front of the Python agent.                             *)
(*                                                                         *)
(* Time is in milliseconds (Date.now()).  A duration of d seconds is held  *)
(* as the integer 1000 * d, and NumberToString renders it the way the      *)
(* template literal `${duration}` renders the JavaScript number.           *)
(***************************************************************************)
EXTENDS Integers, Sequences, FiniteSets, TLC

VARIABLES
    messages,      \* ChatPage: useState<Message[]>
    isTyping,      \* ChatPage: useState(false)
    fetches,       \* one entry per call of fetch('/analyze'): the awaiting handler's closure
    now,           \* Date.now()
    ticks,         \* how many times the clock has advanced
    lastEvent,     \* the event handled by the latest step, with its input
    relay,         \* LogAnalysisService: one entry per call of analyzeLogs
    mounted,           \* AudioRecorder (and the page around it) is mounted
    isRecording,       \* AudioRecorder: useState(false)
    recordingTime,     \* AudioRecorder: useState(0)
    hasPermission,     \* AudioRecorder: useState<boolean | null>(null), as "null", "true", "false"
    mediaRecorderRef,  \* AudioRecorder: useRef<MediaRecorder | null>, 0 for null, else an index of recorders
    audioChunksRef,    \* AudioRecorder: useRef<Blob[]>([])
    streamRef,         \* AudioRecorder: useRef<MediaStream | null>, 0 for null, else an index of streams
    startTimeRef,      \* AudioRecorder: useRef<number>(0)
    timerRef,          \* AudioRecorder: useRef<NodeJS.Timeout | null>, 0 for null, else an index of timers
    getUserMedia,      \* the browser: calls of getUserMedia not yet resolved, and the clicks so far
    streams,           \* the browser: every MediaStream handed out, with how often its tracks were stopped
    recorders,         \* the browser: every MediaRecorder constructed
    timers,            \* the browser: every interval timer created, live or cleared
    payloads           \* every call of the onAudioUpload prop: (audioBlob, duration)

pageVars == <<messages, isTyping, fetches, now, ticks, lastEvent>>
relayVars == <<relay>>
componentVars ==
    <<mounted, isRecording, recordingTime, hasPermission,
      mediaRecorderRef, audioChunksRef, streamRef, startTimeRef, timerRef>>
browserVars == <<getUserMedia, streams, recorders, timers, payloads>>
recorderVars == <<componentVars, browserVars>>

vars == <<messages, isTyping, fetches, now, ticks, lastEvent, relay,
          mounted, isRecording, recordingTime, hasPermission,
          mediaRecorderRef, audioChunksRef, streamRef, startTimeRef, timerRef,
          getUserMedia, streams, recorders, timers, payloads>>

-----------------------------------------------------------------------------
(* Bounds of the exploration *)

MaxSubmits == 2
MaxTicks == 1
MaxRelayCalls == 2
MaxClicks == 2        \* clicks on the start button and on the permission-retry button

(* The clock value at page load: any value of Date.now() far from 1. *)
StartTime == 1000000

ClockSteps == {1}

(* How far the clock moves at once while the recorder is watched: 2.3 s. *)
RecorderClockSteps == {2300}

(* mediaRecorder.start(100): a dataavailable event every 100 ms. *)
Timeslice == 100

(* setInterval(..., 1000) *)
TimerInterval == 1000

-----------------------------------------------------------------------------
(* Inputs *)

UserTexts == {"hello"}

MaxFileSize == 10 * 1024 * 1024

allowedTypes ==
    { "text/plain",
      "application/pdf",
      "application/msword",
      "application/vnd.openxmlformats-officedocument.wordprocessingml.document",
      "image/jpeg",
      "image/png",
      "image/gif",
      "text/csv" }

Files ==
    { [name |-> "report.pdf", size |-> MaxFileSize,      type |-> "application/pdf"],
      [name |-> "report.pdf", size |-> MaxFileSize + 1,  type |-> "application/pdf"],
      [name |-> "logs.zip",   size |-> 1024,             type |-> "application/zip"] }

(* The files the picker and the drop zone are tried with: sizes around the *)
(* limit, each with every allowed type, no type, and types not allowed.    *)
PickedFiles ==
    { [name |-> "upload", size |-> sz, type |-> ty] :
        sz \in {1024, MaxFileSize, MaxFileSize + 1},
        ty \in allowedTypes \cup {"", "application/zip"} }

(* The durations the recorder's stop event passes,                         *)
(* (Date.now() - startTimeRef.current) / 1000, in milliseconds: 2.3 s.     *)
Durations == {2300}

(* What the backend call can come to.  A rejected fetch has no response;   *)
(* a response has a status and a body, which is not JSON, the JSON value   *)
(* null, or a JSON object with or without a string `response` field.       *)
Bodies ==
    { [json |-> "invalid"],
      [json |-> "null"],
      [json |-> "object", has |-> FALSE],
      [json |-> "object", has |-> TRUE, response |-> ""],
      [json |-> "object", has |-> TRUE, response |-> "OK"] }

Outcomes ==
    { [settled |-> "rejected"] }
    \cup { [settled |-> "response", status |-> 200, body |-> b] : b \in Bodies }
    \cup { [settled |-> "response", status |-> 500,
            body |-> [json |-> "object", has |-> TRUE, response |-> "OK"]] }

-----------------------------------------------------------------------------
(* JavaScript conversions *)

(* Number.prototype.toString of the number ms / 1000. *)
Digits3(n) ==
    IF n % 100 = 0 THEN ToString(n \div 100)
    ELSE IF n % 10 = 0
         THEN (IF n < 100 THEN "0" ELSE "") \o ToString(n \div 10)
         ELSE (IF n < 10 THEN "00" ELSE IF n < 100 THEN "0" ELSE "") \o ToString(n)

NumberToString(ms) ==
    IF ms % 1000 = 0 THEN ToString(ms \div 1000)
    ELSE ToString(ms \div 1000) \o "." \o Digits3(ms % 1000)

(* response.ok *)
ResponseOk(status) == status >= 200 /\ status <= 299

-----------------------------------------------------------------------------
(* ChatPage *)

Greeting ==
    [ id |-> "1",
      content |-> "Hello! I'm your AI assistant. How can I help you today?",
      sender |-> "ai",
      timestamp |-> StartTime,
      type |-> "text" ]

textMessage(content) ==
    [ id |-> ToString(now), content |-> content, sender |-> "user",
      timestamp |-> now, type |-> "text" ]

fileMessage(file) ==
    [ id |-> ToString(now), content |-> "Uploaded file: " \o file.name, sender |-> "user",
      timestamp |-> now, type |-> "file", fileName |-> file.name, fileSize |-> file.size ]

audioMessage(duration) ==
    [ id |-> ToString(now), content |-> "Voice message recorded", sender |-> "user",
      timestamp |-> now, type |-> "audio", audioDuration |-> duration ]

(* The fixed string of each handler's catch block. *)
ErrorString(f) ==
    CASE f.handler = "handleSendMessage" ->
           "Sorry, I encountered an error while processing your message. Please try again."
      [] f.handler = "handleFileUpload" ->
           "Sorry, I encountered an error while uploading your file. Please try again."
      [] f.handler = "handleAudioUpload" ->
           "Sorry, I encountered an error while processing your voice message. Please try again."

(* The right operand of `data.response || ...` in each handler. *)
FallbackString(f) ==
    CASE f.handler = "handleSendMessage" ->
           "I received your message and processed it successfully."
      [] f.handler = "handleFileUpload" ->
           "I've received and processed your file \"" \o f.file.name \o "\"."
      [] f.handler = "handleAudioUpload" ->
           "I've received and processed your voice message ("
               \o NumberToString(f.duration) \o "s)."

(* `data.response || fallback`: an absent field reads undefined, and both  *)
(* undefined and the empty string are falsy.                               *)
ResponseOrFallback(body, fallback) ==
    IF body.has /\ body.response # "" THEN body.response ELSE fallback

(* A handler without its `if (!response.ok) throw`. *)
TrySucceedsIgnoringStatus(o) ==
    /\ o.settled = "response"
    /\ o.body.json = "object"

(* Whether the try block of a handler runs to its end: fetch resolved,     *)
(* response.ok, response.json() resolved, and data.response did not throw  *)
(* (reading a property of null throws a TypeError).                        *)
TrySucceeds(o) ==
    /\ o.settled = "response"
    /\ ResponseOk(o.status)
    /\ o.body.json = "object"

(* The content of the ai message a handler appends when its call settles. *)
AiContent(f, o) ==
    IF TrySucceeds(o) THEN ResponseOrFallback(o.body, FallbackString(f))
    ELSE ErrorString(f)

aiMessage(f, o) ==
    [ id |-> ToString(now + 1), content |-> AiContent(f, o), sender |-> "ai",
      timestamp |-> now, type |-> "text" ]

(* A handler that puts its user message first: setMessages(prev =>         *)
(* [userMessage, ...prev]).                                                *)
DispatchPrepend(userMessage, closure) ==
    /\ Len(fetches) < MaxSubmits
    /\ messages' = <<userMessage>> \o messages
    /\ isTyping' = TRUE
    /\ fetches' = Append(fetches, closure @@ [pending |-> TRUE])

(* The part of a handler before its await: append the user message, raise  *)
(* the flag, call fetch.                                                   *)
Dispatch(userMessage, closure) ==
    /\ Len(fetches) < MaxSubmits
    /\ messages' = Append(messages, userMessage)
    /\ isTyping' = TRUE
    /\ fetches' = Append(fetches, closure @@ [pending |-> TRUE])

handleSendMessage(content) ==
    Dispatch(textMessage(content), [handler |-> "handleSendMessage", content |-> content])

(* <MessageInput onSendMessage={handleSendMessage} disabled={isTyping} /> *)
MessageInputDisabled == isTyping

(* MessageInput (components/Input): while it is not disabled, submitting   *)
(* a text that is not empty after trimming calls the callback with it.     *)
onSendMessage(content) ==
    /\ ~MessageInputDisabled
    /\ handleSendMessage(content)
    /\ lastEvent' = [op |-> "onSendMessage", content |-> content]
    /\ UNCHANGED <<now, ticks>>

handleFileUpload(file) ==
    Dispatch(fileMessage(file), [handler |-> "handleFileUpload", file |-> file])

handleAudioUpload(duration) ==
    Dispatch(audioMessage(duration), [handler |-> "handleAudioUpload", duration |-> duration])

(* <AudioRecorder onAudioUpload={handleAudioUpload} />: the recorder's     *)
(* stop event calls the callback with the recorded clip and its duration.  *)
(* The clip goes into the request body only and is left out.               *)
onAudioUpload(duration) ==
    /\ handleAudioUpload(duration)
    /\ lastEvent' = [op |-> "onAudioUpload", duration |-> duration]
    /\ UNCHANGED <<now, ticks>>

(* A catch block that only logs. *)
AppendOnlyOnSuccess(f, o) ==
    IF TrySucceeds(o) THEN Append(messages, aiMessage(f, o)) ELSE messages

(* A handler that turns its own user message into the answer. *)
ReplaceLast(f, o) ==
    [messages EXCEPT ![Len(messages)] = aiMessage(f, o)]

(* setMessages(prev => [...prev, aiMessage]) of the try block, or          *)
(* setMessages(prev => [...prev, errorMessage]) of the catch block.        *)
AppendAi(f, o) ==
    Append(messages, aiMessage(f, o))

(* setIsTyping(false) at the end of the try block instead of in finally. *)
ClearOnlyOnSuccess(o) ==
    IF TrySucceeds(o) THEN FALSE ELSE isTyping

(* finally { setIsTyping(false) } *)
TypingAfterSettle(o) ==
    FALSE

(* The rest of a handler, run when its backend call settles with outcome   *)
(* o: the try block's append or the catch block's, then the finally block. *)
Settle(i, o) ==
    /\ fetches[i].pending
    /\ messages' = AppendAi(fetches[i], o)
    /\ isTyping' = TypingAfterSettle(o)
    /\ fetches' = [fetches EXCEPT ![i].pending = FALSE]
    /\ lastEvent' = [op |-> "settle", call |-> i, outcome |-> o]
    /\ UNCHANGED <<now, ticks>>

-----------------------------------------------------------------------------
(* FileUpload *)

(* A size check against 100 MiB. *)
TooLargeOver100MiB(file) ==
    file.size > 100 * 1024 * 1024

(* A size check that refuses the limit itself: file.size >= 10 * 1024 * 1024 *)
TooLargeFromLimit(file) ==
    file.size >= MaxFileSize

(* file.size > 10 * 1024 * 1024 *)
TooLarge(file) ==
    file.size > MaxFileSize

(* Each rejection alerts and returns before onFileUpload is called. *)
handleFileSelect(file) ==
    /\ lastEvent' = [op |-> "handleFileSelect", file |-> file]
    /\ IF TooLarge(file)
       THEN UNCHANGED <<messages, isTyping, fetches>>
       ELSE IF file.type \notin allowedTypes
            THEN UNCHANGED <<messages, isTyping, fetches>>
            ELSE handleFileUpload(file)
    /\ UNCHANGED <<now, ticks>>

-----------------------------------------------------------------------------
(* The clock *)

Tick(d) ==
    /\ ticks < MaxTicks
    /\ now' = now + d
    /\ ticks' = ticks + 1
    /\ lastEvent' = [op |-> "tick"]
    /\ UNCHANGED <<messages, isTyping, fetches>>

-----------------------------------------------------------------------------
(* AudioRecorder *)
(*                                                                         *)
(* The browser is taken to support 'audio/webm;codecs=opus', so that the   *)
(* MediaRecorder constructor and start(100) do not throw.  A state setter  *)
(* called after the unmount does nothing; the refs and the browser's       *)
(* objects outlive the component.                                          *)

(* setX(value) of a useState pair. *)
SetState(value, old) == IF mounted THEN value ELSE old

(* track.stop() on every track of stream s *)
StopTracks(s) ==
    [streams EXCEPT ![s] = [by |-> @.by, stops |-> @.stops + 1]]

(* clearInterval(t) *)
ClearInterval(live, t) ==
    [live EXCEPT ![t] = [createdAt |-> @.createdAt, state |-> "cleared"]]

(* MediaRecorder.stop(): the recorder is inactive at once; one task to     *)
(* come fires its last dataavailable event and then its stop event.  On a  *)
(* recorder that is not recording it does nothing.                         *)
MediaRecorderStop(r) ==
    IF recorders[r].state = "recording"
    THEN [recorders EXCEPT ![r] =
            [ stream |-> @.stream, startedAt |-> @.startedAt, chunks |-> @.chunks,
              deliveredTo |-> @.deliveredTo, stoppedAt |-> now,
              state |-> "inactive", stopEvent |-> "pending" ]]
    ELSE recorders

(* useEffect(() => { checkMicrophonePermission(); ... }, []) has run in    *)
(* Init.  checkMicrophonePermission up to its await:                       *)
checkMicrophonePermission ==
    /\ getUserMedia' = [getUserMedia EXCEPT !.probe = @ + 1, !.clicks = @ + 1]
    /\ UNCHANGED <<componentVars, streams, recorders, timers, payloads>>

(* The permission-retry button, the only control rendered while            *)
(* hasPermission === false.                                                *)
ClickRetry ==
    /\ mounted
    /\ hasPermission = "false"
    /\ getUserMedia.clicks < MaxClicks
    /\ checkMicrophonePermission
    /\ UNCHANGED pageVars

(* checkMicrophonePermission from its await on: granted, the stream is     *)
(* stopped at once; refused, the catch block runs.                         *)
checkMicrophonePermissionSettle(granted) ==
    /\ getUserMedia.probe > 0
    /\ getUserMedia' = [getUserMedia EXCEPT !.probe = @ - 1]
    /\ IF granted
       THEN /\ hasPermission' = SetState("true", hasPermission)
            /\ streams' = Append(streams, [by |-> "probe", stops |-> 1])
       ELSE /\ hasPermission' = SetState("false", hasPermission)
            /\ UNCHANGED streams
    /\ UNCHANGED <<mounted, isRecording, recordingTime, mediaRecorderRef, audioChunksRef,
                   streamRef, startTimeRef, timerRef, recorders, timers, payloads>>
    /\ UNCHANGED pageVars

(* startRecording up to its await. *)
startRecording ==
    /\ getUserMedia' = [getUserMedia EXCEPT !.start = @ + 1, !.clicks = @ + 1]
    /\ UNCHANGED <<componentVars, streams, recorders, timers, payloads>>

(* startRecording from its await on.  Granted: the refs are set, the       *)
(* recorder is constructed and started, the interval timer is created.     *)
(* Refused: the catch block runs.                                          *)
startRecordingSettle(granted) ==
    /\ getUserMedia.start > 0
    /\ getUserMedia' = [getUserMedia EXCEPT !.start = @ - 1]
    /\ IF granted
       THEN /\ streams' = Append(streams, [by |-> "start", stops |-> 0])
            /\ streamRef' = Len(streams) + 1
            /\ audioChunksRef' = <<>>
            /\ recorders' = Append(recorders,
                                   [ stream |-> Len(streams) + 1, startedAt |-> now,
                                     chunks |-> <<>>, deliveredTo |-> now, stoppedAt |-> 0,
                                     state |-> "recording", stopEvent |-> "none" ])
            /\ mediaRecorderRef' = Len(recorders) + 1
            /\ startTimeRef' = now
            /\ recordingTime' = SetState(0, recordingTime)
            /\ isRecording' = SetState(TRUE, isRecording)
            /\ timers' = Append(timers, [createdAt |-> now, state |-> "live"])
            /\ timerRef' = Len(timers) + 1
            /\ UNCHANGED hasPermission
       ELSE /\ hasPermission' = SetState("false", hasPermission)
            /\ UNCHANGED <<isRecording, recordingTime, mediaRecorderRef, audioChunksRef,
                           streamRef, startTimeRef, timerRef, streams, recorders, timers>>
    /\ UNCHANGED <<mounted, payloads>>
    /\ UNCHANGED pageVars

(* stopRecording with the guard on the ref alone. *)
stopRecordingWhateverFlag(isRecordingSeen, live) ==
    /\ IF mediaRecorderRef # 0
       THEN /\ recorders' = MediaRecorderStop(mediaRecorderRef)
            /\ isRecording' = SetState(FALSE, isRecording)
            /\ recordingTime' = SetState(0, recordingTime)
            /\ IF timerRef # 0
               THEN timers' = ClearInterval(live, timerRef) /\ timerRef' = 0
               ELSE timers' = live /\ UNCHANGED timerRef
       ELSE /\ timers' = live
            /\ UNCHANGED <<recorders, isRecording, recordingTime, timerRef>>
    /\ UNCHANGED <<hasPermission, mediaRecorderRef, audioChunksRef, streamRef, startTimeRef,
                   getUserMedia, streams, payloads>>

(* stopRecording, run by a closure that saw isRecording as isRecordingSeen *)
(* when it was created; live is the timers as the caller leaves them.      *)
stopRecording(isRecordingSeen, live) ==
    /\ IF mediaRecorderRef # 0 /\ isRecordingSeen
       THEN /\ recorders' = MediaRecorderStop(mediaRecorderRef)
            /\ isRecording' = SetState(FALSE, isRecording)
            /\ recordingTime' = SetState(0, recordingTime)
            /\ IF timerRef # 0
               THEN timers' = ClearInterval(live, timerRef) /\ timerRef' = 0
               ELSE timers' = live /\ UNCHANGED timerRef
       ELSE /\ timers' = live
            /\ UNCHANGED <<recorders, isRecording, recordingTime, timerRef>>
    /\ UNCHANGED <<hasPermission, mediaRecorderRef, audioChunksRef, streamRef, startTimeRef,
                   getUserMedia, streams, payloads>>

(* The record button: onClick={isRecording ? stopRecording : startRecording} *)
(* of the latest render, rendered unless hasPermission === false.          *)
ClickRecordButton ==
    /\ mounted
    /\ hasPermission # "false"
    /\ IF isRecording
       THEN stopRecording(isRecording, timers)
       ELSE /\ getUserMedia.clicks < MaxClicks
            /\ startRecording
    /\ UNCHANGED mounted
    /\ UNCHANGED pageVars

(* The cleanup of the mount effect.  Its stopRecording is the one of the   *)
(* first render (the effect's dependencies are []), which saw isRecording  *)
(* as false.                                                               *)
Unmount ==
    /\ mounted
    /\ mounted' = FALSE
    /\ stopRecording(FALSE, IF timerRef # 0 THEN ClearInterval(timers, timerRef) ELSE timers)
    /\ UNCHANGED pageVars

(* mediaRecorder.ondataavailable: what it makes of the array              *)
(* audioChunksRef.current.  A chunk of recorder r holds the sound of the   *)
(* milliseconds from..to, and that many units of data.                     *)
ondataavailable(chunks, data) ==
    IF data.size > 0 THEN Append(chunks, data) ELSE chunks

Chunk(r, from, to) == [of |-> r, from |-> from, to |-> to, size |-> to - from]

(* handleAudioUpload called on the page after it was unmounted: its state  *)
(* setters do nothing, its fetch is made.                                  *)
handleAudioUploadUnmounted(duration) ==
    /\ Len(fetches) < MaxSubmits
    /\ fetches' = Append(fetches, [handler |-> "handleAudioUpload", duration |-> duration,
                                   pending |-> TRUE])
    /\ lastEvent' = [op |-> "onAudioUpload", duration |-> duration]
    /\ UNCHANGED <<messages, isTyping, now, ticks>>

(* The task stop() has queued: the last dataavailable event, with what    *)
(* was recorded since the event before it, and then mediaRecorder.onstop. *)
onstop(r) ==
    /\ recorders[r].stopEvent = "pending"
    /\ recorders' = [recorders EXCEPT ![r] =
          [ stream |-> @.stream, startedAt |-> @.startedAt,
            chunks |-> ondataavailable(@.chunks, Chunk(r, @.deliveredTo, @.stoppedAt)),
            deliveredTo |-> @.stoppedAt, stoppedAt |-> @.stoppedAt,
            state |-> @.state, stopEvent |-> "fired" ]]
    /\ audioChunksRef' = ondataavailable(audioChunksRef,
                              Chunk(r, recorders[r].deliveredTo, recorders[r].stoppedAt))
    /\ LET audioBlob == audioChunksRef'
           duration == now - startTimeRef
       IN  /\ payloads' = Append(payloads, [of |-> r, audioBlob |-> audioBlob,
                                            duration |-> duration, at |-> now])
           /\ IF mounted
              THEN onAudioUpload(duration)
              ELSE handleAudioUploadUnmounted(duration)
    /\ IF streamRef # 0
       THEN streams' = StopTracks(streamRef)
       ELSE UNCHANGED streams
    /\ streamRef' = 0
    /\ UNCHANGED <<mounted, isRecording, recordingTime, hasPermission, mediaRecorderRef,
                   startTimeRef, timerRef, getUserMedia, timers>>

(* The browser stops a recorder whose stream has no live track left. *)
TracksEnded(r) ==
    /\ recorders[r].state = "recording"
    /\ streams[recorders[r].stream].stops > 0
    /\ recorders' = MediaRecorderStop(r)
    /\ UNCHANGED <<componentVars, getUserMedia, streams, timers, payloads>>
    /\ UNCHANGED pageVars

(* How often the interval timer t fires while the clock moves on by d. *)
Fires(t, d) ==
    IF timers[t].state = "live"
    THEN ((now + d - timers[t].createdAt) \div TimerInterval)
            - ((now - timers[t].createdAt) \div TimerInterval)
    ELSE 0

RECURSIVE AllFires(_, _)
AllFires(n, d) == IF n = 0 THEN 0 ELSE Fires(n, d) + AllFires(n - 1, d)

(* Up to where recorder r has delivered its sound when the clock has moved *)
(* on by d: to its last whole timeslice, if it is recording.               *)
DeliveredTo(r, d) ==
    IF recorders[r].state = "recording"
    THEN recorders[r].startedAt
            + ((now + d - recorders[r].startedAt) \div Timeslice) * Timeslice
    ELSE recorders[r].deliveredTo

(* The array audioChunksRef.current after the dataavailable events of the  *)
(* first n recorders while the clock moves on by d: each recorder's events *)
(* of that time taken together as one.                                     *)
RECURSIVE Delivered(_, _)
Delivered(n, d) ==
    IF n = 0 THEN audioChunksRef
    ELSE ondataavailable(Delivered(n - 1, d),
                         Chunk(n, recorders[n].deliveredTo, DeliveredTo(n, d)))

(* Time passes: the clock moves on by d, every live interval timer runs    *)
(* its callback, setRecordingTime(prev => prev + 1), as often as it is     *)
(* due, and every recorder that is recording fires its dataavailable       *)
(* events.                                                                 *)
TimePasses(d) ==
    /\ \/ \E r \in 1..Len(recorders) : recorders[r].stopEvent # "fired"
       \/ \E t \in 1..Len(timers) : timers[t].state = "live"
    /\ Tick(d)
    /\ recordingTime' = SetState(recordingTime + AllFires(Len(timers), d), recordingTime)
    /\ audioChunksRef' = Delivered(Len(recorders), d)
    /\ recorders' = [r \in 1..Len(recorders) |->
          [ stream |-> recorders[r].stream, startedAt |-> recorders[r].startedAt,
            chunks |-> ondataavailable(recorders[r].chunks,
                                       Chunk(r, recorders[r].deliveredTo, DeliveredTo(r, d))),
            deliveredTo |-> DeliveredTo(r, d), stoppedAt |-> recorders[r].stoppedAt,
            state |-> recorders[r].state, stopEvent |-> recorders[r].stopEvent ]]
    /\ UNCHANGED <<mounted, isRecording, hasPermission, mediaRecorderRef,
                   streamRef, startTimeRef, timerRef, getUserMedia, streams, timers, payloads>>

-----------------------------------------------------------------------------
(* The relay: LogAnalysisController and LogAnalysisService *)

(* The bodies of POST /logs/upload: { logs: string[] }. *)
LogBodies ==
    { [logs |-> <<>>],
      [logs |-> <<"boot ok">>],
      [logs |-> <<"disk full", "boot ok">>] }

(* What the call of the Python agent can come to: the fetch rejects, or    *)
(* it answers with a status, a status text and a body that is JSON or not. *)
AgentStatuses == {200, 201, 404, 500, 503}

StatusText(status) ==
    CASE status = 200 -> "OK"
      [] status = 201 -> "Created"
      [] status = 404 -> "Not Found"
      [] status = 500 -> "Internal Server Error"
      [] status = 503 -> "Service Unavailable"

AgentBodies ==
    { [json |-> "invalid"],
      [json |-> "object", summary |-> "1 error"],
      [json |-> "object", detail |-> "no such route"] }

AgentOutcomes ==
    { [settled |-> "rejected"] }
    \cup { [settled |-> "response", status |-> st, statusText |-> StatusText(st), body |-> b] :
             st \in AgentStatuses, b \in AgentBodies }

(* new HttpException(message, status) *)
HttpException(message, status) ==
    [threw |-> "HttpException", message |-> message, status |-> status]

(* The try block of analyzeLogs: what it returns or throws. *)
analyzeLogsTry(o) ==
    IF o.settled = "rejected"
    THEN [threw |-> "TypeError", message |-> "fetch failed"]
    ELSE IF ~ResponseOk(o.status)
    THEN HttpException("Python agent error: " \o o.statusText, o.status)
    ELSE IF o.body.json = "invalid"
    THEN [threw |-> "SyntaxError", message |-> "Unexpected token"]
    ELSE [returned |-> o.body]

Threw(result) == "threw" \in DOMAIN result

(* A catch block that lets the error through: catch (error) { throw error } *)
RethrowError(error) == error

(* The catch block of analyzeLogs. *)
analyzeLogsCatch(error) == HttpException("Failed to reach Python agent", 500)

(* analyzeLogs up to its await: the request it sends to pythonAgentUrl. *)
analyzeLogs(logs) ==
    /\ Len(relay) < MaxRelayCalls
    /\ relay' = Append(relay,
                       [ logs |-> logs,
                         url |-> "http://localhost:8001/analyze",
                         request |-> [logs |-> logs],
                         pending |-> TRUE ])

(* POST /logs/upload *)
uploadLogs(body) ==
    /\ analyzeLogs(body.logs)
    /\ UNCHANGED <<pageVars, recorderVars>>

(* analyzeLogs from its await on: the call of the Python agent comes to o. *)
analyzeLogsSettle(i, o) ==
    /\ relay[i].pending
    /\ relay' = [relay EXCEPT ![i] =
                    [ logs |-> @.logs, url |-> @.url, request |-> @.request,
                      pending |-> FALSE,
                      agent |-> o,
                      result |-> IF Threw(analyzeLogsTry(o))
                                 THEN analyzeLogsCatch(analyzeLogsTry(o))
                                 ELSE analyzeLogsTry(o) ]]
    /\ UNCHANGED <<pageVars, recorderVars>>

-----------------------------------------------------------------------------

Init ==
    /\ messages = <<Greeting>>
    /\ isTyping = FALSE
    /\ fetches = <<>>
    /\ now = StartTime
    /\ ticks = 0
    /\ lastEvent = [op |-> "mount"]
    /\ relay = <<>>
    /\ mounted = TRUE
    /\ isRecording = FALSE
    /\ recordingTime = 0
    /\ hasPermission = "null"
    /\ mediaRecorderRef = 0
    /\ audioChunksRef = <<>>
    /\ streamRef = 0
    /\ startTimeRef = 0
    /\ timerRef = 0
    /\ getUserMedia = [probe |-> 1, start |-> 0, clicks |-> 0]
    /\ streams = <<>>
    /\ recorders = <<>>
    /\ timers = <<>>
    /\ payloads = <<>>

(* The page in the browser. *)
Next ==
    \/ \E content \in UserTexts : onSendMessage(content) /\ UNCHANGED <<relayVars, recorderVars>>
    \/ \E file \in Files : handleFileSelect(file) /\ UNCHANGED <<relayVars, recorderVars>>
    \/ \E duration \in Durations : onAudioUpload(duration) /\ UNCHANGED <<relayVars, recorderVars>>
    \/ \E i \in 1..Len(fetches) : \E o \in Outcomes : Settle(i, o) /\ UNCHANGED <<relayVars, recorderVars>>
    \/ \E d \in ClockSteps : Tick(d) /\ UNCHANGED <<relayVars, recorderVars>>

Spec == Init /\ [][Next]_vars

(* The file picker alone, with its wider range of files. *)
FileNext ==
    \E file \in PickedFiles : handleFileSelect(file) /\ UNCHANGED <<relayVars, recorderVars>>

FileSpec == Init /\ [][FileNext]_vars

(* The recorder in the page. *)
RecorderNext ==
    \/ ClickRecordButton /\ UNCHANGED relayVars
    \/ ClickRetry /\ UNCHANGED relayVars
    \/ \E granted \in BOOLEAN : checkMicrophonePermissionSettle(granted) /\ UNCHANGED relayVars
    \/ \E granted \in BOOLEAN : startRecordingSettle(granted) /\ UNCHANGED relayVars
    \/ \E r \in 1..Len(recorders) : onstop(r) /\ UNCHANGED relayVars
    \/ \E r \in 1..Len(recorders) : TracksEnded(r) /\ UNCHANGED relayVars
    \/ Unmount /\ UNCHANGED relayVars
    \/ \E d \in RecorderClockSteps : TimePasses(d) /\ UNCHANGED relayVars

RecorderSpec == Init /\ [][RecorderNext]_vars

(* The relay on its server. *)
RelayNext ==
    \/ \E body \in LogBodies : uploadLogs(body)
    \/ \E i \in 1..Len(relay) : \E o \in AgentOutcomes : analyzeLogsSettle(i, o)

RelaySpec == Init /\ [][RelayNext]_vars

-----------------------------------------------------------------------------
(* Notions the properties are stated in *)

Pending == { i \in 1..Len(fetches) : fetches[i].pending }

AllSettled == Pending = {}

SentBy(sender) == { k \in 1..Len(messages) : messages[k].sender = sender }

LastMessage == messages[Len(messages)]

IsPrefix(s, t) == Len(s) <= Len(t) /\ SubSeq(t, 1, Len(s)) = s

(* The kind of message each handler sends for the user. *)
KindOf(handler) ==
    CASE handler = "handleSendMessage" -> "text"
      [] handler = "handleFileUpload" -> "file"
      [] handler = "handleAudioUpload" -> "audio"

(* The latest step settled a backend call. *)
JustSettled == lastEvent.op = "settle"

SettledCall == fetches[lastEvent.call]

(* The ways a backend call fails: network rejection, a status outside      *)
(* 200..299 whatever the body, a body that is not JSON.                    *)
CallFailed(o) ==
    \/ o.settled = "rejected"
    \/ o.settled = "response" /\ (o.status < 200 \/ o.status > 299)
    \/ o.settled = "response" /\ o.body.json = "invalid"

(* A 2xx answer whose body is a JSON object. *)
AnsweredObject(o) ==
    /\ o.settled = "response"
    /\ o.status >= 200 /\ o.status <= 299
    /\ o.body.json = "object"

(* The latest step handed handleFileSelect a file it must reject. *)
RejectedSelect(e) ==
    /\ e.op = "handleFileSelect"
    /\ \/ e.file.size > 10485760
       \/ e.file.type \notin
            { "text/plain", "application/pdf", "application/msword",
              "application/vnd.openxmlformats-officedocument.wordprocessingml.document",
              "text/csv", "image/jpeg", "image/png", "image/gif" }

-----------------------------------------------------------------------------
(* C1.  Every submit action contributes exactly one user message at once   *)
(* and exactly one ai message when its backend call settles: in every      *)
(* state there are as many user messages as submit actions and, the        *)
(* greeting aside, as many ai messages as settled calls; once all N calls  *)
(* have settled the list holds exactly 1 + 2 * N messages.                 *)
C1_OneUserOneAiPerAction ==
    /\ Cardinality(SentBy("user")) = Len(fetches)
    /\ Cardinality(SentBy("ai")) = 1 + Len(fetches) - Cardinality(Pending)
    /\ SentBy("user") \cup SentBy("ai") = 1..Len(messages)
    /\ AllSettled => Len(messages) = 1 + 2 * Len(fetches)

(* Two overlapping actions of different kinds, both settled, one of them   *)
(* by a failure.                                                           *)
C1_Witness ==
    /\ Len(fetches) >= 2
    /\ AllSettled
    /\ messages[2].sender = "user" /\ messages[3].sender = "user"
    /\ messages[2].type # messages[3].type
    /\ \E k \in 4..Len(messages) : messages[k].content = ErrorString(fetches[1])

(* C2.  Once all backend calls have settled, the messages after the        *)
(* greeting alternate user, ai, user, ai: the k-th pair is the user        *)
(* message of the k-th submitted action followed by the ai message of      *)
(* that action.  Stated as the claim states it; the page violates it.      *)
C2_StrictAlternation ==
    AllSettled =>
        \A k \in 1..Len(fetches) :
            /\ messages[2 * k].sender = "user"
            /\ messages[2 * k].type = KindOf(fetches[k].handler)
            /\ messages[2 * k + 1].sender = "ai"

(* C3.  The responding flag is true exactly when some dispatch has begun   *)
(* and its backend call has not settled.  Stated as the claim states it;   *)
(* the page violates it.                                                   *)
C3_TypingIffInFlight ==
    isTyping <=> Pending # {}

(* C4.  No submission of any kind begins a dispatch while the responding   *)
(* flag is true, and so at most one backend call is in flight.  Stated as  *)
(* the claim states it; the page violates it.                              *)
C4_NoDispatchWhileTyping ==
    [][Len(fetches') > Len(fetches) => (~isTyping /\ Cardinality(Pending') <= 1)]_vars

(* C5.  Whatever the outcome and the input kind, the step that settles a   *)
(* dispatch leaves the responding flag false and the text input enabled,   *)
(* and so they are whenever every dispatch has settled.                    *)
C5_FlagClearedOnSettle ==
    /\ JustSettled => (~isTyping /\ ~MessageInputDisabled)
    /\ AllSettled => (~isTyping /\ ~MessageInputDisabled)

(* A call that failed has just settled, and nothing else is in flight. *)
C5_Witness ==
    /\ JustSettled
    /\ ~TrySucceeds(lastEvent.outcome)
    /\ AllSettled
    /\ ~isTyping

(* C6.  The message list is append-only: in every step the list before is  *)
(* a prefix of the list after.                                             *)
C6_AppendOnly ==
    [][IsPrefix(messages, messages')]_vars

(* The list has grown by submits and by settlements of both outcomes, and  *)
(* the greeting is still first.                                            *)
C6_Witness ==
    /\ Len(messages) >= 5
    /\ messages[1] = Greeting
    /\ \E k \in 2..Len(messages) : messages[k].content = "OK"
    /\ \E k \in 2..Len(messages) : messages[k].content = ErrorString(fetches[1])

(* C7.  A step that hands handleFileSelect a file larger than 10 MiB, or   *)
(* of a type outside the allow-list, changes neither the message list nor  *)
(* the responding flag and calls the backend not at all.                   *)
C7_RejectedFileChangesNothing ==
    [][RejectedSelect(lastEvent') =>
        (messages' = messages /\ isTyping' = isTyping /\ fetches' = fetches)]_vars

(* An oversized file of an allowed type has just been rejected while the   *)
(* page could still dispatch.                                              *)
C7_Witness ==
    /\ RejectedSelect(lastEvent)
    /\ lastEvent.file.size > 10485760
    /\ lastEvent.file.type = "application/pdf"
    /\ Len(fetches) < MaxSubmits

(* C8.  When a backend call fails (rejection, a status outside 200..299    *)
(* whatever the body, a body that is not JSON), the ai message appended    *)
(* for it is the fixed error string of its own input kind, other calls in  *)
(* flight or not.                                                          *)
C8_FixedErrorString ==
    (JustSettled /\ CallFailed(lastEvent.outcome)) =>
        /\ LastMessage.sender = "ai"
        /\ LastMessage.content =
             CASE SettledCall.handler = "handleSendMessage" ->
                    "Sorry, I encountered an error while processing your message. Please try again."
               [] SettledCall.handler = "handleFileUpload" ->
                    "Sorry, I encountered an error while uploading your file. Please try again."
               [] SettledCall.handler = "handleAudioUpload" ->
                    "Sorry, I encountered an error while processing your voice message. Please try again."

(* A file upload has just failed with status 500 and a body that carries   *)
(* a response, while a call of another kind is still in flight.            *)
C8_Witness ==
    /\ JustSettled
    /\ lastEvent.outcome.settled = "response"
    /\ lastEvent.outcome.status = 500
    /\ SettledCall.handler = "handleFileUpload"
    /\ \E j \in Pending : fetches[j].handler # "handleFileUpload"

(* C9.  When the backend answers 2xx with a JSON object, the ai message    *)
(* is the `response` field's value for every string value of the field,    *)
(* the empty string included, and the fallback string only when the field  *)
(* is absent.  Stated as the claim states it; the page violates it.        *)
C9_ResponseShownVerbatim ==
    (JustSettled /\ AnsweredObject(lastEvent.outcome)) =>
        IF lastEvent.outcome.body.has
        THEN LastMessage.content = lastEvent.outcome.body.response
        ELSE LastMessage.content = FallbackString(SettledCall)

(* C10.  An audio submission of duration d answered 2xx without a          *)
(* `response` field gets the audio fallback string with d rounded to a     *)
(* whole number of seconds.  Stated as the claim states it; the page       *)
(* violates it.                                                            *)
C10_FallbackEmbedsRoundedDuration ==
    ( /\ JustSettled
      /\ SettledCall.handler = "handleAudioUpload"
      /\ AnsweredObject(lastEvent.outcome)
      /\ ~lastEvent.outcome.body.has ) =>
        LastMessage.content =
            "I've received and processed your voice message ("
                \o ToString((SettledCall.duration + 500) \div 1000) \o "s)."

-----------------------------------------------------------------------------
(* C12.  All messages in the list have pairwise distinct ids, whatever     *)
(* the timing of submissions and settlements.  Stated as the claim states  *)
(* it; the page violates it.                                               *)
C12_DistinctIds ==
    \A j, k \in 1..Len(messages) : j # k => messages[j].id # messages[k].id

(* The position in the list of the user message of the i-th submit action, *)
(* if user messages are in the order of the actions: the i-th message sent *)
(* by the user.                                                            *)
UserIndex(i) ==
    CHOOSE k \in SentBy("user") : Cardinality({ j \in SentBy("user") : j <= k }) = i

(* What the user message of a dispatch shows. *)
UserContent(f) ==
    CASE f.handler = "handleSendMessage" -> f.content
      [] f.handler = "handleFileUpload" -> "Uploaded file: " \o f.file.name
      [] f.handler = "handleAudioUpload" -> "Voice message recorded"

(* C19.  User messages are in the list in the order their submit actions   *)
(* were invoked, and the ai message a dispatch appends when its call       *)
(* settles comes after that dispatch's own user message (the list being    *)
(* append-only, it stays there), however the dispatches overlap.           *)
C19_AnswerAfterOwnMessage ==
    /\ \A i \in 1..Len(fetches) :
           /\ messages[UserIndex(i)].type = KindOf(fetches[i].handler)
           /\ messages[UserIndex(i)].content = UserContent(fetches[i])
    /\ JustSettled =>
           /\ LastMessage.sender = "ai"
           /\ UserIndex(lastEvent.call) < Len(messages)

(* The second of two overlapping dispatches of different kinds has just    *)
(* been answered, before the first.                                        *)
C19_Witness ==
    /\ JustSettled
    /\ lastEvent.call = 2
    /\ fetches[1].pending
    /\ fetches[1].handler # fetches[2].handler

-----------------------------------------------------------------------------
(* The relay's calls that have come back *)
RelayDone == { i \in 1..Len(relay) : ~relay[i].pending }

(* C13.  When the Python agent answers with a non-2xx status S, analyzeLogs *)
(* fails with an HTTP exception that carries the same status S.  Stated as *)
(* the claim states it; the service violates it.                           *)
C13_AgentStatusPropagated ==
    \A i \in RelayDone :
        (relay[i].agent.settled = "response" /\ ~ResponseOk(relay[i].agent.status))
            => /\ Threw(relay[i].result)
               /\ relay[i].result.threw = "HttpException"
               /\ relay[i].result.status = relay[i].agent.status

(* C14.  When the fetch of the Python agent rejects, analyzeLogs fails     *)
(* with HttpException('Failed to reach Python agent', 500) and not with    *)
(* the raw error; when the agent answers 2xx with a JSON body, analyzeLogs *)
(* returns that body as it is.  The request carries the logs as received.  *)
C14_TransportFailureFixedAndBodyRelayed ==
    \A i \in RelayDone :
        /\ relay[i].request = [logs |-> relay[i].logs]
        /\ relay[i].agent.settled = "rejected"
               => relay[i].result = HttpException("Failed to reach Python agent", 500)
        /\ ( /\ relay[i].agent.settled = "response"
             /\ ResponseOk(relay[i].agent.status)
             /\ relay[i].agent.body.json # "invalid" )
               => relay[i].result = [returned |-> relay[i].agent.body]

(* One call whose fetch was rejected and one answered 201 with a JSON body. *)
C14_Witness ==
    /\ \E i \in RelayDone : relay[i].agent.settled = "rejected"
    /\ \E i \in RelayDone :
           /\ relay[i].agent.settled = "response"
           /\ relay[i].agent.status = 201
           /\ relay[i].agent.body.json = "object"
           /\ ~Threw(relay[i].result)

-----------------------------------------------------------------------------
(* C18.  handleFileSelect hands the file to handleFileUpload exactly when  *)
(* its size is at most 10 MiB (10485760 bytes, the limit itself accepted)  *)
(* and its type is one of the eight allowed; a file with no type is        *)
(* refused; an accepted file is handed over once: one call of the backend  *)
(* with that file and one file message for it, and nothing else.           *)
C18_AcceptedIffSmallAndAllowed ==
    [][lastEvent'.op = "handleFileSelect" =>
        IF RejectedSelect(lastEvent')
        THEN fetches' = fetches /\ messages' = messages
        ELSE /\ Len(fetches') = Len(fetches) + 1
             /\ fetches' = Append(fetches, fetches'[Len(fetches')])
             /\ fetches'[Len(fetches')].handler = "handleFileUpload"
             /\ fetches'[Len(fetches')].file = lastEvent'.file
             /\ Len(messages') = Len(messages) + 1
             /\ messages' = Append(messages, messages'[Len(messages')])
             /\ messages'[Len(messages')].type = "file"
             /\ messages'[Len(messages')].fileSize = lastEvent'.file.size]_vars

(* A text/csv file of exactly 10 MiB has just been handed over, after a    *)
(* file that was handed over before it.                                    *)
C18_Witness ==
    /\ lastEvent.op = "handleFileSelect"
    /\ lastEvent.file.size = 10485760
    /\ lastEvent.file.type = "text/csv"
    /\ Len(fetches) = 2
    /\ fetches[2].file = lastEvent.file
    /\ fetches[1].file # lastEvent.file

-----------------------------------------------------------------------------
(* The recorder *)

(* The step is the cleanup of the mount effect. *)
Unmounting == mounted /\ ~mounted'

(* C11.  When AudioRecorder is unmounted while isRecording is true, the    *)
(* cleanup stops the recorder, so that its stream is released (and no      *)
(* stream is released twice).  Stated as the claim states it; the          *)
(* component violates it.                                                  *)
C11_UnmountStopsRecorder ==
    [][(Unmounting /\ isRecording) =>
          /\ mediaRecorderRef # 0
          /\ recorders'[mediaRecorderRef].state = "inactive"
          /\ \A s \in 1..Len(streams') : streams'[s].stops <= 1]_vars

(* The component is mounted and idle: it shows no recording, no            *)
(* startRecording is waiting for getUserMedia and no stop event is to come. *)
Idle ==
    /\ mounted
    /\ ~isRecording
    /\ getUserMedia.start = 0
    /\ getUserMedia.probe = 0
    /\ \A r \in 1..Len(recorders) : recorders[r].stopEvent # "pending"

(* C15.  Whenever the recorder is idle with no stop event pending, no      *)
(* stream acquired by startRecording or by the permission probe is still   *)
(* open, whatever the interleaving of clicks, getUserMedia completions and *)
(* stop events.  Stated as the claim states it; the component violates it. *)
C15_NoOpenStreamWhenIdle ==
    Idle => \A s \in 1..Len(streams) : streams[s].stops > 0

(* C16.  Each stop of a recording hands onAudioUpload one payload, whose   *)
(* duration is the time from that recording's own start to its stop event  *)
(* and whose data are the chunks with data delivered to that recording, in *)
(* the order they came.  Stated as the claim states it; the component      *)
(* violates it.                                                            *)
C16_PayloadOfOwnRecording ==
    /\ \A r \in 1..Len(recorders) :
           recorders[r].stopEvent = "fired"
               => Cardinality({ p \in 1..Len(payloads) : payloads[p].of = r }) = 1
    /\ \A p \in 1..Len(payloads) :
           /\ payloads[p].duration = payloads[p].at - recorders[payloads[p].of].startedAt
           /\ payloads[p].audioBlob = recorders[payloads[p].of].chunks

(* C17.  stopRecording called while isRecording is false, as the cleanup   *)
(* of the mount effect calls it, does nothing: no recorder is stopped,     *)
(* onAudioUpload is not called, no message is appended, and isRecording,   *)
(* recordingTime, timerRef and streamRef are as before; of the timers only *)
(* the one the cleanup itself has cleared before the call is changed.      *)
C17_StopWhileNotRecordingIsNoOp ==
    [][Unmounting =>
          /\ recorders' = recorders
          /\ payloads' = payloads
          /\ messages' = messages
          /\ fetches' = fetches
          /\ isRecording' = isRecording
          /\ recordingTime' = recordingTime
          /\ timerRef' = timerRef
          /\ streamRef' = streamRef
          /\ streams' = streams
          /\ timers' = IF timerRef # 0 THEN ClearInterval(timers, timerRef) ELSE timers]_vars

(* The component was unmounted with a recorder in its ref that is still    *)
(* recording, 2.3 s into the recording.                                    *)
C17_Witness ==
    /\ ~mounted
    /\ mediaRecorderRef # 0
    /\ recorders[mediaRecorderRef].state = "recording"
    /\ recorders[mediaRecorderRef].chunks # <<>>
    /\ getUserMedia.start = 0

(* C20.  Whenever a recording is active the stop control is rendered:      *)
(* isRecording implies that hasPermission is not false.  Stated as the     *)
(* claim states it; the component violates it.                             *)
C20_StopControlWhileRecording ==
    isRecording => hasPermission # "false"

(* The interval timers that are live. *)
LiveTimers == { t \in 1..Len(timers) : timers[t].state = "live" }

(* C21.  At most one interval timer is live at any time, none is live      *)
(* while isRecording is false, and recordingTime is 0 while isRecording is *)
(* false, whatever the interleaving of start clicks, stop clicks and       *)
(* getUserMedia completions.  Stated as the claim states it; the component *)
(* violates it.                                                            *)
C21_OneTimerOnlyWhileRecording ==
    mounted =>
        /\ Cardinality(LiveTimers) <= 1
        /\ ~isRecording => (LiveTimers = {} /\ recordingTime = 0)

====
